---- MODULE Spec2Model ----
(***************************************************************************)
(* Stripe -> BigQuery MRR pipeline: etl/extract_load.py (batch ETL and     *)
(* view creation), api/main.py (read API over the views) and               *)
(* tests/test_snapshots.py (snapshot integrity checks) and                 *)
(* scripts/validate_mrr.py (cross-validation against the billing system)   *)
(* and scripts/seed_prices.py (creation of the products and prices).       *)
(*                                                                         *)
(* Money is kept in integer hundredths: a NUMERIC/FLOAT64 value v of the   *)
(* SQL is represented by 100 * v, so ROUND(x, 2) becomes a rounding to an  *)
(* integer.  Months are the integers 1..MaxMonth standing for the strings  *)
(* "2024-01", "2024-02", ... whose lexicographic order is the integer      *)
(* order.                                                                  *)
(***************************************************************************)
EXTENDS Bags, FiniteSets, Integers, Naturals, Sequences, TLC

VARIABLES
    config,             \* config/: sub_snapshots.json and current_run.json
    stripe,             \* the billing system: invoices and subscriptions it returns
    etl_pc,             \* position of the ETL process (extract_load.py)
    SUB_SNAPSHOTS,      \* extract_load.py module global read at import
    VALID_CUSTOMER_IDS, \* extract_load.py module global read at import
    invoice_rows,       \* main(): local of the ETL run
    subscription_rows,  \* main(): local of the ETL run
    tables,             \* BigQuery dataset: table name -> [exists, rows (a bag)]
    views,              \* BigQuery dataset: names of the views that exist
    published,          \* history: the last two fact sets handed to a load job
    bq_client,          \* api/main.py _bq_client
    api_pc,             \* "starting" until startup_event has run, then "serving"
    response,           \* the last response the read API sent
    raised,             \* the exception the backing store raised in that request
    snapshots,          \* SnapshotIntegrityTests.snapshots
    report,             \* the outcome of each test of SnapshotIntegrityTests
    validate,           \* validate_mrr.py: position, locals of main() and exit status
    calls,              \* get_bq_client: each worker thread's position and result
    seed                \* seed_prices.py: the Stripe catalog, position and locals of main()

vars == <<config, stripe, etl_pc, SUB_SNAPSHOTS, VALID_CUSTOMER_IDS,
          invoice_rows, subscription_rows, tables, views, published,
          bq_client, api_pc, response, raised, snapshots, report, validate,
          calls, seed>>

envVars == <<config, stripe>>
etlVars == <<etl_pc, SUB_SNAPSHOTS, VALID_CUSTOMER_IDS, invoice_rows,
             subscription_rows>>
storeVars == <<tables, views, published>>
apiVars == <<bq_client, api_pc, response, raised, calls>>
testVars == <<snapshots, report, validate, seed>>

----------------------------------------------------------------------------
(* Bounds *)

MaxMonth == 2          \* months a loaded fact set ranges over
MaxCustomers == 3      \* customers a loaded fact set ranges over
MaxFactRows == 3       \* rows of a loaded fact set
MaxPipeRows == 2       \* rows of a snapshot file the pipeline is run on
CohortMonths == 3      \* months of a store of whole cohorts
MaxTestRows == 2       \* rows of a snapshot file the integrity tests are run on
MaxValidateRows == 2   \* rows of a snapshot file the cross-validation is run on
MaxThreads == 2        \* worker threads that serve requests at the same time
MaxSeedRuns == 2       \* runs of seed_prices.py
MaxSeedFaults == 1     \* Stripe calls and file writes of seed_prices.py that fail

----------------------------------------------------------------------------
(* Snapshot rows *)

\* NULL in an id column; ids are the integers from 1
NULL == 0

Months == 1..MaxMonth

\* EXPECTED_PRICES of tests/test_snapshots.py (PLAN_PRICES of validate_mrr.py)
EXPECTED_PRICES ==
    [free |-> 0, standard |-> 1000, pro_plus |-> 1500, engage |-> 3000,
     enterprise |-> 4500]

SnapshotRow(m, c, s, p, price, n, cents, st) ==
    [month |-> m, customer_id |-> c, subscription_id |-> s, plan |-> p,
     price_amount |-> price, screens |-> n, mrr_cents |-> cents,
     status |-> st]

----------------------------------------------------------------------------
(* SQL scalar and aggregate functions, over a bag of rows *)

\* a rounding that truncates toward minus infinity instead
RoundDown(num, den) == num \div den

\* ROUND(x, 0) of x = num / den, den > 0: halfway cases away from zero
RoundHalfAway(num, den) ==
    IF num >= 0 THEN (2 * num + den) \div (2 * den)
    ELSE -((2 * (-num) + den) \div (2 * den))

\* ROUND(num / den, 2), in hundredths
Round2(num, den) == RoundHalfAway(100 * num, den)

\* the rows of group G of table T, with their multiplicities
GroupBag(G, T) == [r \in G |-> CopiesIn(r, T)]

RECURSIVE SumByValue(_, _, _)
SumByValue(values, G, T) ==
    IF values = {} THEN 0
    ELSE LET v == CHOOSE x \in values : TRUE
         IN v * BagCardinality(GroupBag({r \in G : r.mrr_cents = v}, T))
            + SumByValue(values \ {v}, G, T)

\* SUM(mrr_cents) over the rows of group G of table T
SumCents(G, T) == SumByValue({r.mrr_cents : r \in G}, G, T)

\* COUNT(DISTINCT e) given the values e takes on the group: NULLs do not count
CountDistinct(values) == Cardinality(values \ {NULL})

\* GROUP BY month: the distinct rows of month m
MonthGroup(T, m) == {r \in BagToSet(T) : r.month = m}

MonthsOf(T) == {r.month : r \in BagToSet(T)}

----------------------------------------------------------------------------
(* create_views: the view definitions, as functions of their source *)

\* a CASE whose ELSE branch files an unmapped key under a paid plan:
\* ELSE 'Standard'
PlanNameElseStandard(plan) ==
    CASE plan = "free" -> "Free"
      [] plan = "standard" -> "Standard"
      [] plan = "pro_plus" -> "Pro Plus"
      [] plan = "engage" -> "Engage"
      [] plan = "enterprise" -> "Enterprise"
      [] OTHER -> "Standard"

\* plan_case_expr ... ELSE 'Unknown'
PlanName(plan) ==
    CASE plan = "free" -> "Free"
      [] plan = "standard" -> "Standard"
      [] plan = "pro_plus" -> "Pro Plus"
      [] plan = "engage" -> "Engage"
      [] plan = "enterprise" -> "Enterprise"
      [] OTHER -> "Unknown"

\* the CASE with >= in place of >: free customers counted as paying
PayingOrFreeCustomerExpr(r) == IF r.mrr_cents >= 0 THEN r.customer_id ELSE NULL

\* CASE WHEN mrr_cents > 0 THEN customer_id END
PayingCustomerExpr(r) == IF r.mrr_cents > 0 THEN r.customer_id ELSE NULL

\* COUNT(CASE WHEN mrr_cents > 0 THEN customer_id END), without DISTINCT: the
\* paying rows of the month
PayingRows(T, m) ==
    BagCardinality(GroupBag({r \in MonthGroup(T, m) :
                                PayingCustomerExpr(r) # NULL}, T))

\* COUNT(DISTINCT CASE WHEN mrr_cents > 0 THEN customer_id END)
PayingCustomers(T, m) ==
    CountDistinct({PayingCustomerExpr(r) : r \in MonthGroup(T, m)})

\* View 1: mrr_monthly over sub_snapshots
mrr_monthly(T) ==
    { [month |-> m,
       mrr_amount |-> Round2(SumCents(MonthGroup(T, m), T), 100),
       paying_customers |-> PayingCustomers(T, m),
       total_customers |->
           CountDistinct({r.customer_id : r \in MonthGroup(T, m)}),
       active_subscriptions |->
           CountDistinct({r.subscription_id : r \in MonthGroup(T, m)})]
      : m \in MonthsOf(T) }

\* GROUP BY month, plan_name
PlanGroup(T, m, name) ==
    {r \in BagToSet(T) : r.month = m /\ PlanName(r.plan) = name}

PlanGroupKeys(T) == {<<r.month, PlanName(r.plan)>> : r \in BagToSet(T)}

\* View 2: mrr_by_plan over sub_snapshots
mrr_by_plan(T) ==
    { [month |-> k[1], plan_name |-> k[2],
       mrr_amount |-> Round2(SumCents(PlanGroup(T, k[1], k[2]), T), 100)]
      : k \in PlanGroupKeys(T) }

\* an arppu rounded from an already rounded quotient:
\* ROUND(ROUND(mrr_amount / paying_customers, 1), 2)
arppu_of_rounded_quotient(M) ==
    { [month |-> r.month, mrr_amount |-> r.mrr_amount,
       paying_customers |-> r.paying_customers,
       arppu |-> IF r.paying_customers > 0
                 THEN 10 * RoundHalfAway(r.mrr_amount, 10 * r.paying_customers)
                 ELSE 0]
      : r \in M }

\* View 3: arppu_monthly over mrr_monthly (mrr_amount is in hundredths)
arppu_monthly(M) ==
    { [month |-> r.month, mrr_amount |-> r.mrr_amount,
       paying_customers |-> r.paying_customers,
       arppu |-> IF r.paying_customers > 0
                 THEN Round2(r.mrr_amount, 100 * r.paying_customers)
                 ELSE 0]
      : r \in M }

\* View 4: customers_by_plan over sub_snapshots
customers_by_plan(T) ==
    { [month |-> k[1], plan_name |-> k[2],
       customer_count |->
           CountDistinct({r.customer_id : r \in PlanGroup(T, k[1], k[2])})]
      : k \in PlanGroupKeys(T) }

----------------------------------------------------------------------------
(* The BigQuery dataset: tables, views, queries *)

TableNames == {"raw_invoices", "raw_subscriptions", "sub_snapshots"}

NoTable == [exists |-> FALSE, rows |-> EmptyBag]

\* pd.DataFrame(rows) loaded into a table: the rows with their multiplicities
SeqToBag(rows) ==
    [r \in {rows[i] : i \in DOMAIN rows} |->
        Cardinality({i \in DOMAIN rows : rows[i] = r})]

\* the columns each view's SELECT list defines
ViewColumns(v) ==
    CASE v = "mrr_monthly" ->
            {"month", "mrr_amount", "paying_customers", "total_customers",
             "active_subscriptions"}
      [] v = "mrr_by_plan" -> {"month", "plan_name", "mrr_amount"}
      [] v = "arppu_monthly" ->
            {"month", "mrr_amount", "paying_customers", "arppu"}
      [] v = "customers_by_plan" -> {"month", "plan_name", "customer_count"}

\* what a view's FROM clause names
ViewSource(v) ==
    CASE v \in {"mrr_monthly", "mrr_by_plan", "customers_by_plan"} ->
            "sub_snapshots"
      [] v = "arppu_monthly" -> "mrr_monthly"

\* a relation resolves when it exists and what it reads resolves
Resolves(name, tbls, vws) ==
    IF name \in TableNames THEN tbls[name].exists
    ELSE /\ name \in vws
         /\ IF ViewSource(name) \in TableNames
            THEN tbls[ViewSource(name)].exists
            ELSE /\ ViewSource(name) \in vws
                 /\ tbls[ViewSource(ViewSource(name))].exists

\* the rows of a view, evaluated when it is queried
ViewRows(v, tbls) ==
    CASE v = "mrr_monthly" -> mrr_monthly(tbls["sub_snapshots"].rows)
      [] v = "mrr_by_plan" -> mrr_by_plan(tbls["sub_snapshots"].rows)
      [] v = "arppu_monthly" ->
            arppu_monthly(mrr_monthly(tbls["sub_snapshots"].rows))
      [] v = "customers_by_plan" ->
            customers_by_plan(tbls["sub_snapshots"].rows)

\* lexicographic rank of the plan display names
PlanNameRank(name) ==
    CASE name = "Engage" -> 1
      [] name = "Enterprise" -> 2
      [] name = "Free" -> 3
      [] name = "Pro Plus" -> 4
      [] name = "Standard" -> 5
      [] name = "Unknown" -> 6

\* ORDER BY month ASC
MonthKey(r) == r.month

\* ORDER BY month ASC, plan_name DESC
MonthPlanKeyDesc(r) == 10 * r.month - PlanNameRank(r.plan_name)

\* ORDER BY month ASC, plan_name ASC
MonthPlanKey(r) == 10 * r.month + PlanNameRank(r.plan_name)

RECURSIVE OrderBy(_, _)
OrderBy(S, key) ==
    IF S = {} THEN <<>>
    ELSE LET r == CHOOSE x \in S : \A y \in S : key[x] <= key[y]
         IN <<r>> \o OrderBy(S \ {r}, key)

\* SELECT cols: the row restricted to the selected columns
Project(r, cols) == [c \in cols |-> r[c]]

SelectSeq2(rows, cols) == [i \in 1..Len(rows) |-> Project(rows[i], cols)]


----------------------------------------------------------------------------
(* api/main.py *)

None == "None"

NoException == [type |-> "none", text |-> ""]

\* what the backing store does to one request: nothing, or an exception of
\* some type and text at client construction, query submission or result fetch
NoFault == [stage |-> "none", type |-> "none", text |-> ""]

ErrorTexts == {"credential path /secret/key.json", "deadline exceeded"}

Faults ==
    [stage : {"init", "submit", "fetch"},
     type : {"TimeoutError", "RuntimeError"},
     text : ErrorTexts]

\* get_bq_client: the handle after the call
ClientAfter(client, f) ==
    IF client = None /\ f.stage = "init" THEN None ELSE "client"

\* the exception client construction, submission or fetch raises, if any
BackendException(client, f) ==
    IF f.stage = "init"
    THEN IF client = None THEN [type |-> f.type, text |-> f.text]
         ELSE NoException
    ELSE IF f.stage \in {"submit", "fetch"}
         THEN [type |-> f.type, text |-> f.text]
         ELSE NoException

\* the error the SQL engine reports for SELECT cols FROM v, if any
SqlException(v, cols, tbls, vws) ==
    IF ~Resolves(v, tbls, vws)
    THEN [type |-> "NotFound", text |-> "Not found: Table or view"]
    ELSE IF ~(cols \subseteq ViewColumns(v))
         THEN [type |-> "BadRequest", text |-> "Unrecognized name"]
         ELSE NoException

\* the exception raised inside query_bq's try block, if any
QueryException(client, f, v, cols, tbls, vws) ==
    IF BackendException(client, f) # NoException
    THEN BackendException(client, f)
    ELSE SqlException(v, cols, tbls, vws)

\* except clauses that pass the text of the exception on: detail=str(e)
HTTPExceptionWithText(e) ==
    IF e.type = "TimeoutError"
    THEN [status_code |-> 504, detail |-> e.text]
    ELSE [status_code |-> 500, detail |-> e.text]

\* query_bq's except clauses
HTTPException(e) ==
    IF e.type = "TimeoutError"
    THEN [status_code |-> 504, detail |-> "Query timed out"]
    ELSE [status_code |-> 500, detail |-> "BigQuery query failed"]

\* the routes: the view each SELECTs from, its select list and ORDER BY
Routes ==
    [mrr |-> [path |-> "/api/mrr", view |-> "mrr_monthly", by_plan |-> FALSE,
              cols |-> {"month", "mrr_amount", "paying_customers",
                        "total_customers", "active_subscriptions",
                        "past_due_customers", "at_risk_mrr"}],
     mrr_by_plan |-> [path |-> "/api/mrr-by-plan", view |-> "mrr_by_plan",
              by_plan |-> TRUE,
              cols |-> {"month", "plan_name", "mrr_amount"}],
     arpu |-> [path |-> "/api/arpu", view |-> "arppu_monthly",
              by_plan |-> FALSE, cols |-> {"month", "arppu"}],
     customers_by_plan |-> [path |-> "/api/customers-by-plan",
              view |-> "customers_by_plan", by_plan |-> TRUE,
              cols |-> {"month", "plan_name", "customer_count"}],
     churn |-> [path |-> "/api/churn", view |-> "churn_monthly",
              by_plan |-> FALSE,
              cols |-> {"month", "total_customers", "prev_customers",
                        "churn_rate"}]]

\* the ORDER BY of a route, applied to the rows of its view
Ordered(route, rows) ==
    IF route.by_plan THEN OrderBy(rows, [r \in rows |-> MonthPlanKey(r)])
    ELSE OrderBy(rows, [r \in rows |-> MonthKey(r)])

\* [dict(row) for row in results]
QueryRows(route, tbls) ==
    SelectSeq2(Ordered(route, ViewRows(route.view, tbls)), route.cols)

\* the response of a data route: {"data": data}, or the HTTPException
RouteResponse(route, client, f, tbls, vws) ==
    LET e == QueryException(client, f, route.view, route.cols, tbls, vws)
    IN IF e = NoException
       THEN [endpoint |-> route.path, status_code |-> 200,
             body |-> [data |-> QueryRows(route, tbls)]]
       ELSE [endpoint |-> route.path,
             status_code |-> HTTPException(e).status_code,
             body |-> [detail |-> HTTPException(e).detail]]

\* a health that reports the exception: "bigquery": str(e)
HealthResponseWithText(client, f) ==
    IF BackendException(client, f) = NoException
    THEN [endpoint |-> "/api/health", status_code |-> 200,
          body |-> [status |-> "ok", bigquery |-> "connected"]]
    ELSE [endpoint |-> "/api/health", status_code |-> 503,
          body |-> [status |-> "degraded",
                    bigquery |-> BackendException(client, f).text]]

\* the response of health
HealthResponse(client, f) ==
    IF BackendException(client, f) = NoException
    THEN [endpoint |-> "/api/health", status_code |-> 200,
          body |-> [status |-> "ok", bigquery |-> "connected"]]
    ELSE [endpoint |-> "/api/health", status_code |-> 503,
          body |-> [status |-> "degraded", bigquery |-> "unavailable"]]

NoResponse == [endpoint |-> "", status_code |-> 0, body |-> [data |-> <<>>]]

\* startup_event: tries the connection, swallows any failure
startup_event(f) ==
    /\ api_pc = "starting"
    /\ api_pc' = "serving"
    /\ bq_client' = ClientAfter(bq_client, f)
    /\ raised' = BackendException(bq_client, f)
    /\ UNCHANGED <<response, calls, envVars, etlVars, storeVars, testVars>>

\* a data route: get_mrr, get_mrr_by_plan, get_arpu, get_customers_by_plan,
\* get_churn, each one call of query_bq
Get(route, f) ==
    /\ api_pc = "serving"
    /\ bq_client' = ClientAfter(bq_client, f)
    /\ raised' = QueryException(bq_client, f, route.view, route.cols, tables,
                                views)
    /\ response' = RouteResponse(route, bq_client, f, tables, views)
    /\ UNCHANGED <<api_pc, calls, envVars, etlVars, storeVars, testVars>>

get_mrr(f) == Get(Routes.mrr, f)

get_mrr_by_plan(f) == Get(Routes.mrr_by_plan, f)

get_arpu(f) == Get(Routes.arpu, f)

get_customers_by_plan(f) == Get(Routes.customers_by_plan, f)

get_churn(f) == Get(Routes.churn, f)

health(f) ==
    /\ api_pc = "serving"
    /\ bq_client' = ClientAfter(bq_client, f)
    /\ raised' = BackendException(bq_client, f)
    /\ response' = HealthResponse(bq_client, f)
    /\ UNCHANGED <<api_pc, calls, envVars, etlVars, storeVars, testVars>>


----------------------------------------------------------------------------
(* etl/extract_load.py *)

\* the table after a load job with WRITE_APPEND
WriteAppend(old, rows) == [exists |-> TRUE, rows |-> old.rows (+) SeqToBag(rows)]

\* job_config.write_disposition = WRITE_TRUNCATE: the table after the load job
WriteTruncate(old, rows) == [exists |-> TRUE, rows |-> SeqToBag(rows)]

\* a load that writes only into a table that does not exist yet (WRITE_EMPTY)
load_write_empty(tbls, rows, table_name) ==
    IF rows = <<>> \/ tbls[table_name].exists THEN tbls
    ELSE [tbls EXCEPT ![table_name] = WriteTruncate(tbls[table_name], rows)]

\* load_to_bigquery(rows, table_name, schema): the dataset's tables afterwards
load_to_bigquery(tbls, rows, table_name) ==
    IF rows = <<>> THEN tbls
    ELSE [tbls EXCEPT ![table_name] = WriteTruncate(tbls[table_name], rows)]

\* extract_invoices / extract_subscriptions: the rows of the objects whose
\* customer belongs to the current run
RECURSIVE Extract(_, _)
Extract(objects, valid_ids) ==
    IF objects = <<>> THEN <<>>
    ELSE IF Head(objects).customer_id \in valid_ids
         THEN <<Head(objects)>> \o Extract(Tail(objects), valid_ids)
         ELSE Extract(Tail(objects), valid_ids)

EtlStopped == etl_pc \in {"idle", "done", "failed"}

\* module import: reads config/current_run.json and config/sub_snapshots.json
EtlImport ==
    /\ EtlStopped
    /\ VALID_CUSTOMER_IDS' = config.current_run
    /\ SUB_SNAPSHOTS' = config.sub_snapshots
    /\ invoice_rows' = <<>>
    /\ subscription_rows' = <<>>
    /\ etl_pc' = "ensure_dataset"
    /\ UNCHANGED <<envVars, storeVars, apiVars, testVars>>

\* main(): ensure_dataset() leaves the tables and views of the dataset alone
ensure_dataset ==
    /\ etl_pc = "ensure_dataset"
    /\ etl_pc' = "extract_invoices"
    /\ UNCHANGED <<SUB_SNAPSHOTS, VALID_CUSTOMER_IDS, invoice_rows,
                   subscription_rows, envVars, storeVars, apiVars, testVars>>

extract_invoices ==
    /\ etl_pc = "extract_invoices"
    /\ invoice_rows' = Extract(stripe.invoices, VALID_CUSTOMER_IDS)
    /\ etl_pc' = "extract_subscriptions"
    /\ UNCHANGED <<SUB_SNAPSHOTS, VALID_CUSTOMER_IDS, subscription_rows,
                   envVars, storeVars, apiVars, testVars>>

extract_subscriptions ==
    /\ etl_pc = "extract_subscriptions"
    /\ subscription_rows' = Extract(stripe.subscriptions, VALID_CUSTOMER_IDS)
    /\ etl_pc' = "load_invoices"
    /\ UNCHANGED <<SUB_SNAPSHOTS, VALID_CUSTOMER_IDS, invoice_rows, envVars,
                   storeVars, apiVars, testVars>>

LoadInvoices ==
    /\ etl_pc = "load_invoices"
    /\ tables' = load_to_bigquery(tables, invoice_rows, "raw_invoices")
    /\ etl_pc' = "load_subscriptions"
    /\ UNCHANGED <<SUB_SNAPSHOTS, VALID_CUSTOMER_IDS, invoice_rows,
                   subscription_rows, views, published, envVars, apiVars,
                   testVars>>

LoadSubscriptions ==
    /\ etl_pc = "load_subscriptions"
    /\ tables' = load_to_bigquery(tables, subscription_rows,
                                  "raw_subscriptions")
    /\ etl_pc' = "load_snapshots"
    /\ UNCHANGED <<SUB_SNAPSHOTS, VALID_CUSTOMER_IDS, invoice_rows,
                   subscription_rows, views, published, envVars, apiVars,
                   testVars>>

\* create_views: the views in the order their statements run
ViewOrder == <<"mrr_monthly", "mrr_by_plan", "arppu_monthly",
               "customers_by_plan">>

LoadSnapshots ==
    /\ etl_pc = "load_snapshots"
    /\ tables' = load_to_bigquery(tables, SUB_SNAPSHOTS, "sub_snapshots")
    /\ published' = IF SUB_SNAPSHOTS = <<>> THEN published
                    ELSE [prev |-> published.new,
                          new |-> [exists |-> TRUE,
                                   rows |-> SeqToBag(SUB_SNAPSHOTS)]]
    /\ etl_pc' = ViewOrder[1]
    /\ UNCHANGED <<SUB_SNAPSHOTS, VALID_CUSTOMER_IDS, invoice_rows,
                   subscription_rows, views, envVars, apiVars, testVars>>

\* the position after statement i of create_views; a position in create_views
\* is the name of the view about to be created
AfterView(i) == IF i < Len(ViewOrder) THEN ViewOrder[i + 1] ELSE "done"

\* CREATE OR REPLACE VIEW v: fails, and ends the run, when what v reads does
\* not resolve
CreateView(i) ==
    /\ etl_pc = ViewOrder[i]
    /\ IF Resolves(ViewSource(ViewOrder[i]), tables, views)
       THEN /\ views' = views \cup {ViewOrder[i]}
            /\ etl_pc' = AfterView(i)
       ELSE /\ views' = views
            /\ etl_pc' = "failed"
    /\ UNCHANGED <<SUB_SNAPSHOTS, VALID_CUSTOMER_IDS, invoice_rows,
                   subscription_rows, tables, published, envVars, apiVars,
                   testVars>>

create_views == \E i \in 1..Len(ViewOrder) : CreateView(i)


----------------------------------------------------------------------------
(* tests/test_snapshots.py: SnapshotIntegrityTests *)

\* the indexes of S in the order a for loop visits them
RECURSIVE Ascending(_)
Ascending(S) ==
    IF S = {} THEN <<>>
    ELSE LET i == CHOOSE x \in S : \A y \in S : x <= y
         IN <<i>> \o Ascending(S \ {i})

\* the list a loop appends Entry(i) to for every row i that is Bad, rows being
\* numbered from 0 as enumerate does
Errors(rows, Bad(_), Entry(_)) ==
    LET visited == Ascending({i \in DOMAIN rows : Bad(i)})
    IN [k \in DOMAIN visited |-> Entry(visited[k])]

Outcome(errors) == [passed |-> errors = <<>>, errors |-> errors]

Asserted(ok) == [passed |-> ok, errors |-> <<>>]

test_snapshots_not_empty(rows) == Asserted(Len(rows) > 0)

test_mrr_cents_equals_price_times_screens(rows) ==
    LET Bad(i) == rows[i].mrr_cents # rows[i].price_amount * rows[i].screens
        Entry(i) == [row |-> i - 1, month |-> rows[i].month,
                     customer_id |-> rows[i].customer_id,
                     mrr_cents |-> rows[i].mrr_cents,
                     expected |-> rows[i].price_amount * rows[i].screens]
    IN Outcome(Errors(rows, Bad, Entry))

\* a duplicate check that compares whole rows instead of their keys:
\* `key = tuple(row.items())`
test_no_duplicate_rows(rows) ==
    LET Bad(i) == \E j \in 1..(i - 1) : rows[j] = rows[i]
        Entry(i) == [month |-> rows[i].month,
                     customer_id |-> rows[i].customer_id]
    IN Outcome(Errors(rows, Bad, Entry))

test_no_duplicate_customers_per_month(rows) ==
    LET Bad(i) == \E j \in 1..(i - 1) :
                     /\ rows[j].month = rows[i].month
                     /\ rows[j].customer_id = rows[i].customer_id
        Entry(i) == [month |-> rows[i].month,
                     customer_id |-> rows[i].customer_id]
    IN Outcome(Errors(rows, Bad, Entry))

\* a test of the price table that takes a price of 0 for a missing key:
\* `if not expected_price`
PriceUnknownOrZero(plan) ==
    plan \notin DOMAIN EXPECTED_PRICES \/ EXPECTED_PRICES[plan] = 0

\* EXPECTED_PRICES.get(plan) is None
PriceUnknown(plan) == plan \notin DOMAIN EXPECTED_PRICES

test_price_amount_matches_plan(rows) ==
    LET Bad(i) == \/ PriceUnknown(rows[i].plan)
                  \/ rows[i].price_amount # EXPECTED_PRICES[rows[i].plan]
        Entry(i) ==
            IF PriceUnknown(rows[i].plan)
            THEN [row |-> i - 1, plan |-> rows[i].plan]
            ELSE [row |-> i - 1, month |-> rows[i].month,
                  customer_id |-> rows[i].customer_id,
                  plan |-> rows[i].plan,
                  price_amount |-> rows[i].price_amount,
                  expected |-> EXPECTED_PRICES[rows[i].plan]]
    IN Outcome(Errors(rows, Bad, Entry))

test_screens_positive(rows) ==
    LET Bad(i) == rows[i].screens < 1
        Entry(i) == [row |-> i - 1, month |-> rows[i].month,
                     customer_id |-> rows[i].customer_id,
                     screens |-> rows[i].screens]
    IN Outcome(Errors(rows, Bad, Entry))

\* the number of months test_all_months_present expects
ExpectedMonths == 7

test_all_months_present(rows) ==
    Asserted(Cardinality({rows[i].month : i \in DOMAIN rows}) = ExpectedMonths)

\* row.get("status") is None for a row without the key
test_status_field_valid(rows) ==
    LET Bad(i) == rows[i].status \notin {"active", "past_due"}
        Entry(i) == [row |-> i - 1, month |-> rows[i].month,
                     customer_id |-> rows[i].customer_id,
                     status |-> rows[i].status]
    IN Outcome(Errors(rows, Bad, Entry))

test_has_past_due_customers(rows) ==
    Asserted(Cardinality({i \in DOMAIN rows : rows[i].status = "past_due"}) > 0)

Tests == {"test_snapshots_not_empty",
          "test_mrr_cents_equals_price_times_screens",
          "test_no_duplicate_customers_per_month",
          "test_price_amount_matches_plan", "test_screens_positive",
          "test_all_months_present", "test_status_field_valid",
          "test_has_past_due_customers"}

RunTest(t, rows) ==
    CASE t = "test_snapshots_not_empty" -> test_snapshots_not_empty(rows)
      [] t = "test_mrr_cents_equals_price_times_screens" ->
            test_mrr_cents_equals_price_times_screens(rows)
      [] t = "test_no_duplicate_customers_per_month" ->
            test_no_duplicate_customers_per_month(rows)
      [] t = "test_price_amount_matches_plan" ->
            test_price_amount_matches_plan(rows)
      [] t = "test_screens_positive" -> test_screens_positive(rows)
      [] t = "test_all_months_present" -> test_all_months_present(rows)
      [] t = "test_status_field_valid" -> test_status_field_valid(rows)
      [] t = "test_has_past_due_customers" ->
            test_has_past_due_customers(rows)

NoReport == [phase |-> "new", outcome |-> [t \in Tests |-> Asserted(TRUE)]]

\* setUpClass: cls.snapshots = load_snapshots()
setUpClass ==
    /\ report.phase = "new"
    /\ snapshots' = config.sub_snapshots
    /\ report' = [report EXCEPT !.phase = "set_up"]
    /\ UNCHANGED <<validate, seed, envVars, etlVars, storeVars, apiVars>>

\* unittest runs the tests of the class, none of which assigns the rows
RunTests ==
    /\ report.phase = "set_up"
    /\ report' = [phase |-> "ran",
                  outcome |-> [t \in Tests |-> RunTest(t, snapshots)]]
    /\ UNCHANGED <<snapshots, validate, seed, envVars, etlVars, storeVars, apiVars>>

----------------------------------------------------------------------------
(* scripts/validate_mrr.py *)

\* config/stripe_prices.json, "price_ids": plan key -> price id
price_ids ==
    [free |-> "price_free", standard |-> "price_standard",
     pro_plus |-> "price_pro_plus", engage |-> "price_engage",
     enterprise |-> "price_enterprise"]

\* load_price_to_plan's reverse mapping, read with .get(price_id, "unknown")
price_id_to_plan(price_id) ==
    IF \E k \in DOMAIN price_ids : price_ids[k] = price_id
    THEN CHOOSE k \in DOMAIN price_ids : price_ids[k] = price_id
    ELSE "unknown"

\* the exception classes of stripe.error, all subclasses of StripeError
StripeErrors ==
    {"InvalidRequestError", "AuthenticationError", "APIConnectionError",
     "RateLimitError", "APIError"}

\* fetch_stripe_subscription returning None
NoneData == [none |-> TRUE]

\* what follows a successful retrieve in fetch_stripe_subscription
SubscriptionData(sub) ==
    IF sub.status \in {"canceled", "incomplete_expired"}
    THEN [status |-> sub.status, active |-> FALSE]
    ELSE [status |-> sub.status,
          snapshot_status |->
              IF sub.status = "past_due" THEN "past_due" ELSE "active",
          active |-> TRUE,
          price_id |-> sub.price_id,
          price_amount |-> sub.unit_amount,
          quantity |-> sub.quantity]

\* a fetch without the last except clause: an exception that is not a
\* StripeError leaves the function
fetch_without_catch_all(retrieval) ==
    IF retrieval.raises = "none" THEN SubscriptionData(retrieval.sub)
    ELSE IF retrieval.raises = "InvalidRequestError" THEN NoneData
    ELSE IF retrieval.raises = "AuthenticationError"
         THEN [error |-> <<"Authentication failed", retrieval.text>>]
    ELSE IF retrieval.raises = "APIConnectionError"
         THEN [error |-> <<"Network error", retrieval.text>>]
    ELSE IF retrieval.raises = "RateLimitError"
         THEN [error |-> <<"Rate limited">>]
    ELSE IF retrieval.raises \in StripeErrors
         THEN [error |-> <<"Stripe API error", retrieval.text>>]
    ELSE [raise |-> retrieval.raises]

\* fetch_stripe_subscription(subscription_id), given what
\* stripe.Subscription.retrieve does: the value returned
fetch_stripe_subscription(retrieval) ==
    IF retrieval.raises = "none" THEN SubscriptionData(retrieval.sub)
    ELSE IF retrieval.raises = "InvalidRequestError" THEN NoneData
    ELSE IF retrieval.raises = "AuthenticationError"
         THEN [error |-> <<"Authentication failed", retrieval.text>>]
    ELSE IF retrieval.raises = "APIConnectionError"
         THEN [error |-> <<"Network error", retrieval.text>>]
    ELSE IF retrieval.raises = "RateLimitError"
         THEN [error |-> <<"Rate limited">>]
    ELSE IF retrieval.raises \in StripeErrors
         THEN [error |-> <<"Stripe API error", retrieval.text>>]
    ELSE [error |-> <<"Unexpected error", retrieval.text>>]

\* `if a != b: errors.append(...)`
FieldError(field, snap_value, stripe_value, differ) ==
    IF differ
    THEN << [field |-> field, snapshot |-> snap_value, stripe |-> stripe_value] >>
    ELSE <<>>

\* snap["status"] without a default
SnapStatusOrNone(snap) == snap.status

\* snap.get("status", "active"): a row without the key has status None here
SnapStatus(snap) == IF snap.status = None THEN "active" ELSE snap.status

\* main(): the errors list of one snapshot row against its live subscription
CompareErrors(snap, stripe_data) ==
    LET stripe_plan == price_id_to_plan(stripe_data.price_id)
        stripe_mrr == stripe_data.price_amount * stripe_data.quantity
    IN FieldError("plan", snap.plan, stripe_plan, stripe_plan # snap.plan)
       \o FieldError("screens", snap.screens, stripe_data.quantity,
                     stripe_data.quantity # snap.screens)
       \o FieldError("price", snap.price_amount, stripe_data.price_amount,
                     stripe_data.price_amount # snap.price_amount)
       \o FieldError("mrr_cents", snap.mrr_cents, stripe_mrr,
                     stripe_mrr # snap.mrr_cents)
       \o FieldError("status", SnapStatus(snap), stripe_data.snapshot_status,
                     stripe_data.snapshot_status # SnapStatus(snap))

\* sys.exit(exit_code): the number of discrepancies as the exit status
ExitStatusOfCount(exit_code) == exit_code

\* sys.exit(1 if exit_code > 0 else 0)
ExitStatus(exit_code) == IF exit_code > 0 THEN 1 ELSE 0

NotExited == -1

NotValidated ==
    [pc |-> "start", latest_month |-> 0, snapshots |-> <<>>, i |-> 0,
     stripe_data |-> NoneData, mismatches |-> <<>>, stripe_errors |-> <<>>,
     match_count |-> 0, exit_status |-> NotExited]

\* load_latest_snapshots: the rows of the greatest month, or exit 1 on an
\* empty file
load_latest_snapshots ==
    /\ validate.pc = "start"
    /\ LET all_snapshots == config.sub_snapshots
           months == {all_snapshots[k].month : k \in DOMAIN all_snapshots}
       IN IF all_snapshots = <<>>
          THEN validate' = [validate EXCEPT !.pc = "exited", !.exit_status = 1]
          ELSE LET latest_month == CHOOSE m \in months : \A n \in months : n <= m
               IN validate' =
                     [validate EXCEPT
                        !.pc = "checking",
                        !.latest_month = latest_month,
                        !.snapshots =
                            SelectSeq(all_snapshots,
                                      LAMBDA row : row.month = latest_month)]
    /\ UNCHANGED <<snapshots, report, seed, envVars, etlVars, storeVars, apiVars>>

\* main(): one pass of the loop over the rows, for snapshots[i] (0-based)
CheckRow(retrieval) ==
    /\ validate.pc = "checking"
    /\ validate.i < Len(validate.snapshots)
    /\ LET snap == validate.snapshots[validate.i + 1]
           stripe_data == fetch_stripe_subscription(retrieval)
           next == [validate EXCEPT !.i = @ + 1, !.stripe_data = stripe_data]
       IN validate' =
             IF "raise" \in DOMAIN stripe_data
             THEN [validate EXCEPT !.pc = "exited", !.exit_status = 1]
             ELSE IF stripe_data = NoneData
             THEN [next EXCEPT !.stripe_errors =
                      Append(@, [customer_id |-> snap.customer_id,
                                 subscription_id |-> snap.subscription_id,
                                 error |-> <<"not found in Stripe">>])]
             ELSE IF "error" \in DOMAIN stripe_data
             THEN [next EXCEPT !.stripe_errors =
                      Append(@, [customer_id |-> snap.customer_id,
                                 error |-> stripe_data.error])]
             ELSE IF ~stripe_data.active
             THEN [next EXCEPT !.mismatches =
                      Append(@, [customer_id |-> snap.customer_id,
                                 stripe_says |-> stripe_data.status])]
             ELSE IF CompareErrors(snap, stripe_data) # <<>>
             THEN [next EXCEPT !.mismatches =
                      Append(@, [customer_id |-> snap.customer_id,
                                 errors |-> CompareErrors(snap, stripe_data)])]
             ELSE [next EXCEPT !.match_count = @ + 1]
    /\ UNCHANGED <<snapshots, report, seed, envVars, etlVars, storeVars, apiVars>>

\* main() returns len(mismatches) + len(stripe_errors) after the loop
main_return ==
    /\ validate.pc = "checking"
    /\ validate.i = Len(validate.snapshots)
    /\ validate' =
          [validate EXCEPT
             !.pc = "exited",
             !.exit_status = ExitStatus(Len(validate.mismatches)
                                        + Len(validate.stripe_errors))]
    /\ UNCHANGED <<snapshots, report, seed, envVars, etlVars, storeVars, apiVars>>

----------------------------------------------------------------------------
(* api/main.py: get_bq_client, statement by statement, in the worker threads *)
(* that run the route handlers                                              *)

Threads == 1..MaxThreads

\* the client object a thread's call of bigquery.Client() creates
ClientNames == <<"client1", "client2", "client3", "client4">>

NoCalls ==
    [pc |-> [t \in Threads |-> "idle"],
     result |-> [t \in Threads |-> None],
     constructed |-> {},
     returned |-> {}]

\* a request handler calls get_bq_client()
get_bq_client_call(t) ==
    /\ api_pc = "serving"
    /\ calls.pc[t] = "idle"
    /\ calls' = [calls EXCEPT !.pc[t] = "test"]
    /\ UNCHANGED <<bq_client, api_pc, response, raised, envVars, etlVars,
                   storeVars, testVars>>

\* if _bq_client is None:
get_bq_client_test(t) ==
    /\ calls.pc[t] = "test"
    /\ calls' = [calls EXCEPT
                   !.pc[t] = IF bq_client = None THEN "construct" ELSE "return"]
    /\ UNCHANGED <<bq_client, api_pc, response, raised, envVars, etlVars,
                   storeVars, testVars>>

\* _bq_client = bigquery.Client(project=PROJECT_ID), or the exception it
\* raises, logged and raised again
get_bq_client_construct(t, ok) ==
    /\ calls.pc[t] = "construct"
    /\ IF ok
       THEN /\ bq_client' = ClientNames[t]
            /\ calls' = [calls EXCEPT !.pc[t] = "return",
                                      !.constructed = @ \cup {ClientNames[t]}]
       ELSE /\ bq_client' = bq_client
            /\ calls' = [calls EXCEPT !.pc[t] = "idle", !.result[t] = "raised"]
    /\ UNCHANGED <<api_pc, response, raised, envVars, etlVars, storeVars,
                   testVars>>

\* return _bq_client
get_bq_client_return(t) ==
    /\ calls.pc[t] = "return"
    /\ calls' = [calls EXCEPT !.pc[t] = "idle", !.result[t] = bq_client,
                              !.returned = @ \cup {bq_client}]
    /\ UNCHANGED <<bq_client, api_pc, response, raised, envVars, etlVars,
                   storeVars, testVars>>

----------------------------------------------------------------------------
(* scripts/seed_prices.py *)

TIERS ==
    << [name |-> "Free", key |-> "free", amount |-> 0],
       [name |-> "Standard", key |-> "standard", amount |-> 1000],
       [name |-> "Pro Plus", key |-> "pro_plus", amount |-> 1500],
       [name |-> "Engage", key |-> "engage", amount |-> 3000],
       [name |-> "Enterprise", key |-> "enterprise", amount |-> 4500] >>

\* no price: a product's active_price, and find_existing_price's None
NoPrice == 0

\* no product: find_existing_price's None
NoProduct == 0

\* the products of the catalog (by index) tagged with the tier key
Tagged(products, tier_key) ==
    {i \in DOMAIN products : products[i].tier = tier_key}

\* find_existing_price(tier_key), given how stripe.Product.search ends and the
\* product it lists first: (product, price), or the process exits
find_existing_price(products, found, search) ==
    IF search \in {"AuthenticationError", "APIConnectionError"}
    THEN [exit |-> TRUE, product |-> NoProduct, price |-> NoPrice]
    ELSE IF search # "ok" \/ found = NoProduct
    THEN [exit |-> FALSE, product |-> NoProduct, price |-> NoPrice]
    ELSE [exit |-> FALSE, product |-> found,
          price |-> products[found].active_price]

\* config["price_ids"][tier["key"]] = price.id
SetItem(dict, key, value) ==
    [k \in DOMAIN dict \cup {key} |-> IF k = key THEN value ELSE dict[k]]

EmptyDict == [k \in {} |-> NoPrice]

NotSeeded ==
    [pc |-> "idle", products |-> <<>>, next_price |-> Len(TIERS) + 1,
     tier |-> 1, price_ids |-> EmptyDict, file |-> EmptyDict,
     file_written |-> FALSE, at_start |-> <<>>, created |-> <<>>,
     after_success |-> FALSE, runs |-> 0, faults |-> 0]

\* how one pass of the loop of main() may go: without a failure, or with the
\* search, the creation of the product or the creation of the price failing
TierOutcomes ==
    [search : {"ok", "AuthenticationError", "APIConnectionError",
               "StripeError", "Exception"},
     create_product : {"ok"}, create_price : {"ok"}]
    \cup [search : {"ok"}, create_product : {"StripeError"},
          create_price : {"ok"}]
    \cup [search : {"ok"}, create_product : {"ok"},
          create_price : {"StripeError"}]

NoFailure == [search |-> "ok", create_product |-> "ok", create_price |-> "ok"]

\* `uv run python scripts/seed_prices.py`: the process starts
seed_prices_run ==
    /\ seed.pc \in {"idle", "done", "exited"}
    /\ seed.runs < MaxSeedRuns
    /\ seed' = [seed EXCEPT
                  !.pc = "loop", !.tier = 1, !.price_ids = EmptyDict,
                  !.file_written = FALSE, !.at_start = seed.products,
                  !.created = <<>>, !.after_success = (seed.pc = "done"),
                  !.runs = @ + 1]
    /\ UNCHANGED <<snapshots, report, validate, envVars, etlVars, storeVars,
                   apiVars>>

\* main(): one pass of the loop `for tier in TIERS`
seed_tier(outcome, found) ==
    /\ seed.pc = "loop"
    /\ seed.tier <= Len(TIERS)
    /\ outcome # NoFailure => seed.faults < MaxSeedFaults
    /\ LET tier == TIERS[seed.tier]
           existing == find_existing_price(seed.products, found, outcome.search)
           make_product == existing.product = NoProduct
           make_price == ~(existing.product # NoProduct
                           /\ existing.price # NoPrice)
           with_product ==
               IF make_price /\ make_product
               THEN Append(seed.products,
                           [tier |-> tier.key, active_price |-> NoPrice])
               ELSE seed.products
           product == IF make_product THEN Len(with_product)
                      ELSE existing.product
           price == IF make_price THEN seed.next_price ELSE existing.price
           faulty == [seed EXCEPT !.faults =
                         IF outcome = NoFailure THEN @ ELSE @ + 1]
       IN /\ found \in Tagged(seed.products, tier.key)
             \/ (found = NoProduct /\ Tagged(seed.products, tier.key) = {})
          /\ outcome.create_product # "ok" => make_price /\ make_product
          /\ outcome.create_price # "ok" => make_price
          /\ seed' =
                IF existing.exit
                THEN [faulty EXCEPT !.pc = "exited"]
                ELSE IF outcome.create_product # "ok"
                THEN [faulty EXCEPT !.pc = "exited"]
                ELSE IF outcome.create_price # "ok"
                THEN [faulty EXCEPT
                        !.pc = "exited",
                        !.products = with_product,
                        !.created = @ \o
                            (IF make_product
                             THEN << [tier |-> tier.key, what |-> "product"] >>
                             ELSE <<>>)]
                ELSE [faulty EXCEPT
                        !.tier = @ + 1,
                        !.products =
                            IF make_price
                            THEN [with_product EXCEPT
                                    ![product].active_price = price]
                            ELSE with_product,
                        !.next_price = IF make_price THEN @ + 1 ELSE @,
                        !.created = @ \o
                            (IF make_price /\ make_product
                             THEN << [tier |-> tier.key, what |-> "product"] >>
                             ELSE <<>>)
                            \o (IF make_price
                                THEN << [tier |-> tier.key, what |-> "price"] >>
                                ELSE <<>>),
                        !.price_ids = SetItem(@, tier.key, price)]
    /\ UNCHANGED <<snapshots, report, validate, envVars, etlVars, storeVars,
                   apiVars>>

\* main(): json.dump(config, f) after the loop, or exit 1 when it fails
seed_save(ok) ==
    /\ seed.pc = "loop"
    /\ seed.tier = Len(TIERS) + 1
    /\ ~ok => seed.faults < MaxSeedFaults
    /\ seed' = IF ok
               THEN [seed EXCEPT !.pc = "done", !.file = seed.price_ids,
                                 !.file_written = TRUE]
               ELSE [seed EXCEPT !.pc = "exited", !.faults = @ + 1]
    /\ UNCHANGED <<snapshots, report, validate, envVars, etlVars, storeVars,
                   apiVars>>

----------------------------------------------------------------------------
(* Inputs *)

\* what a customer's row can say about the subscription: a plan key (one of
\* them not in the price table), its unit price, the screens and the status
Offers ==
    { [plan |-> "free", price_amount |-> 0, screens |-> 1,
       status |-> "active"],
      [plan |-> "standard", price_amount |-> 1000, screens |-> 1,
       status |-> "active"],
      [plan |-> "pro_plus", price_amount |-> 1500, screens |-> 1,
       status |-> "past_due"],
      [plan |-> "legacy", price_amount |-> 1000, screens |-> 2,
       status |-> "active"] }

\* a customer has one subscription while free and another once paying
SubscriptionOf(c, o) == IF o.price_amount = 0 THEN 2 * c - 1 ELSE 2 * c

FactRow(m, c, o) ==
    SnapshotRow(m, c, SubscriptionOf(c, o), o.plan, o.price_amount,
                o.screens, o.price_amount * o.screens, o.status)

FactRows == {FactRow(m, c, o) : m \in Months, c \in 1..MaxCustomers,
                                o \in Offers}

\* a total order of the rows, to list each fact set once
RowRank(r) ==
    1000000 * r.month + 10000 * r.customer_id + r.mrr_cents
    + (IF r.plan = "legacy" THEN 1 ELSE 0)

Ranked(rows) ==
    \A i \in 1..(Len(rows) - 1) : RowRank(rows[i]) <= RowRank(rows[i + 1])

SeqsUpTo(S, n) == UNION {[1..k -> S] : k \in 0..n}

\* snapshot files, one per fact set
FactFiles == {rows \in SeqsUpTo(FactRows, MaxFactRows) : Ranked(rows)}

PipeRows ==
    {FactRow(1, 1, CHOOSE o \in Offers : o.plan = "standard"),
     FactRow(2, 2, CHOOSE o \in Offers : o.plan = "pro_plus")}

PipeFiles == SeqsUpTo(PipeRows, MaxPipeRows)

\* a whole cohort: customers 1..n of month m, each on the standard plan
Cohort(m, n) ==
    [i \in 1..n |-> FactRow(m, i, CHOOSE o \in Offers : o.plan = "standard")]

RECURSIVE CohortFile(_, _)
CohortFile(sizes, m) ==
    IF m = 0 THEN <<>>
    ELSE CohortFile(sizes, m - 1) \o Cohort(m, sizes[m])

CohortSizes == {0, 80, 100}

CohortFiles ==
    {CohortFile(sizes, CohortMonths) : sizes \in [1..CohortMonths -> CohortSizes]}

\* the billing system: one invoice and one subscription of a customer of the
\* run, and one invoice of a customer that is not
StripeData ==
    [invoices |-> << [invoice_id |-> 1, customer_id |-> 1],
                     [invoice_id |-> 2, customer_id |-> MaxCustomers + 1] >>,
     subscriptions |-> << [subscription_id |-> 2, customer_id |-> 1] >>]

CurrentRun == 1..MaxCustomers

\* rows for the integrity tests: what a row says besides whose it is, right or
\* wrong in each of the ways a test looks for
TestOffers ==
    { [plan |-> "free", price_amount |-> 0, screens |-> 1, mrr_cents |-> 0,
       status |-> "active"],
      [plan |-> "standard", price_amount |-> 1000, screens |-> 2,
       mrr_cents |-> 2000, status |-> "past_due"],
      [plan |-> "standard", price_amount |-> 1000, screens |-> 2,
       mrr_cents |-> 1000, status |-> "active"],
      [plan |-> "free", price_amount |-> 0, screens |-> 0, mrr_cents |-> 0,
       status |-> "active"],
      [plan |-> "legacy", price_amount |-> 1000, screens |-> 1,
       mrr_cents |-> 1000, status |-> "active"],
      [plan |-> "standard", price_amount |-> 1500, screens |-> 1,
       mrr_cents |-> 1500, status |-> "active"],
      [plan |-> "standard", price_amount |-> 1000, screens |-> 1,
       mrr_cents |-> 1000, status |-> "canceled"],
      [plan |-> "standard", price_amount |-> 1000, screens |-> 1,
       mrr_cents |-> 1000, status |-> None],
      [plan |-> "legacy", price_amount |-> 1500, screens |-> 0,
       mrr_cents |-> 1000, status |-> None] }

TestRows ==
    {SnapshotRow(k[1], k[2], 2 * k[2], o.plan, o.price_amount, o.screens,
                 o.mrr_cents, o.status)
       : k \in {<<1, 1>>, <<1, 2>>, <<2, 1>>}, o \in TestOffers}

TestFiles == SeqsUpTo(TestRows, MaxTestRows)

\* rows for the cross-validation: one of an earlier month, and rows of the
\* latest month with a status, without one, and with a wrong mrr_cents
ValidateRows ==
    { SnapshotRow(1, 1, 2, "standard", 1000, 2, 2000, "active"),
      SnapshotRow(2, 1, 2, "standard", 1000, 2, 2000, "active"),
      SnapshotRow(2, 2, 4, "pro_plus", 1500, 1, 1500, "past_due"),
      SnapshotRow(2, 3, 6, "standard", 1000, 1, 1000, None),
      SnapshotRow(2, 3, 6, "standard", 1000, 1, 1500, "active") }

ValidateFiles == SeqsUpTo(ValidateRows, MaxValidateRows)

\* subscriptions as the billing system may hold them
LiveSubscriptions ==
    { [status |-> "active", price_id |-> "price_standard",
       unit_amount |-> 1000, quantity |-> 2],
      [status |-> "active", price_id |-> "price_standard",
       unit_amount |-> 1000, quantity |-> 1],
      [status |-> "trialing", price_id |-> "price_standard",
       unit_amount |-> 1000, quantity |-> 2],
      [status |-> "past_due", price_id |-> "price_standard",
       unit_amount |-> 1000, quantity |-> 2],
      [status |-> "past_due", price_id |-> "price_pro_plus",
       unit_amount |-> 1500, quantity |-> 1],
      [status |-> "active", price_id |-> "price_archived",
       unit_amount |-> 1000, quantity |-> 2],
      [status |-> "canceled", price_id |-> "price_standard",
       unit_amount |-> 1000, quantity |-> 2],
      [status |-> "incomplete_expired", price_id |-> "price_pro_plus",
       unit_amount |-> 1500, quantity |-> 1] }

\* what stripe.Subscription.retrieve does: returns a subscription, or raises
\* a stripe error or another exception
Retrievals ==
    [raises : {"none"}, text : {""}, sub : LiveSubscriptions]
    \cup [raises : StripeErrors \cup {"ValueError"},
          text : {"No such subscription"},
          sub : {CHOOSE sub \in LiveSubscriptions : sub.status = "canceled"}]


----------------------------------------------------------------------------
(* Specifications *)

EmptyDataset == [t \in TableNames |-> NoTable]

\* generate_data.py rewrites config/sub_snapshots.json between ETL runs
GenerateData ==
    /\ EtlStopped
    /\ \E rows \in PipeFiles :
          /\ rows # config.sub_snapshots
          /\ config' = [config EXCEPT !.sub_snapshots = rows]
    /\ UNCHANGED <<stripe, etlVars, storeVars, apiVars, testVars>>

EtlStep ==
    \/ EtlImport
    \/ ensure_dataset
    \/ extract_invoices
    \/ extract_subscriptions
    \/ LoadInvoices
    \/ LoadSubscriptions
    \/ LoadSnapshots
    \/ create_views

ApiStep(f) ==
    \/ get_mrr(f)
    \/ get_mrr_by_plan(f)
    \/ get_arpu(f)
    \/ get_customers_by_plan(f)
    \/ get_churn(f)
    \/ health(f)

\* The pipeline: ETL runs over a fresh dataset, the snapshot file changing
\* between runs, while the API serves requests
Init ==
    /\ config \in [sub_snapshots : PipeFiles, current_run : {CurrentRun}]
    /\ stripe = StripeData
    /\ etl_pc = "idle"
    /\ SUB_SNAPSHOTS = <<>>
    /\ VALID_CUSTOMER_IDS = {}
    /\ invoice_rows = <<>>
    /\ subscription_rows = <<>>
    /\ tables = EmptyDataset
    /\ views = {}
    /\ published = [prev |-> NoTable, new |-> NoTable]
    /\ bq_client = None
    /\ api_pc = "starting"
    /\ response = NoResponse
    /\ raised = NoException
    /\ snapshots = <<>>
    /\ report = NoReport
    /\ validate = NotValidated
    /\ calls = NoCalls
    /\ seed = NotSeeded

Next ==
    \/ GenerateData
    \/ EtlStep
    \/ startup_event(NoFault)
    \/ ApiStep(NoFault)

Spec == Init /\ [][Next]_vars

\* the dataset after one ETL run over a snapshot file, from an empty dataset
TablesAfterEtl(file) ==
    load_to_bigquery(
        load_to_bigquery(
            load_to_bigquery(EmptyDataset,
                             Extract(StripeData.invoices, CurrentRun),
                             "raw_invoices"),
            Extract(StripeData.subscriptions, CurrentRun),
            "raw_subscriptions"),
        file, "sub_snapshots")

\* the state once an ETL run over file has ended and the API has started
Loaded(file) ==
    /\ config = [sub_snapshots |-> file, current_run |-> CurrentRun]
    /\ stripe = StripeData
    /\ SUB_SNAPSHOTS = file
    /\ VALID_CUSTOMER_IDS = CurrentRun
    /\ invoice_rows = Extract(StripeData.invoices, CurrentRun)
    /\ subscription_rows = Extract(StripeData.subscriptions, CurrentRun)
    /\ tables = TablesAfterEtl(file)
    /\ published = [prev |-> NoTable,
                    new |-> TablesAfterEtl(file)["sub_snapshots"]]
    /\ IF file # <<>>
       THEN etl_pc = "done" /\ views = {ViewOrder[i] : i \in 1..Len(ViewOrder)}
       ELSE etl_pc = "failed" /\ views = {}
    /\ response = NoResponse
    /\ raised = NoException
    /\ snapshots = <<>>
    /\ report = NoReport
    /\ validate = NotValidated
    /\ seed = NotSeeded

\* The read API over a loaded store
InitStore ==
    /\ \E file \in FactFiles : Loaded(file)
    /\ bq_client = "client"
    /\ api_pc = "serving"
    /\ calls = NoCalls

NextStore == ApiStep(NoFault)

SpecStore == InitStore /\ [][NextStore]_vars

\* The read API over a store of whole cohorts
InitCohorts ==
    /\ \E file \in CohortFiles : Loaded(file)
    /\ bq_client = "client"
    /\ api_pc = "serving"
    /\ calls = NoCalls

SpecCohorts == InitCohorts /\ [][NextStore]_vars

\* The read API against a backing store that may fail
InitFaults ==
    /\ \E file \in PipeFiles : Loaded(file)
    /\ bq_client = None
    /\ api_pc = "starting"
    /\ calls = NoCalls

NextFaults ==
    \E f \in Faults \cup {NoFault} : startup_event(f) \/ ApiStep(f)

SpecFaults == InitFaults /\ [][NextFaults]_vars

\* The integrity tests over a snapshot file
InitTests ==
    /\ config \in [sub_snapshots : TestFiles, current_run : {CurrentRun}]
    /\ stripe = StripeData
    /\ etl_pc = "idle"
    /\ SUB_SNAPSHOTS = <<>>
    /\ VALID_CUSTOMER_IDS = {}
    /\ invoice_rows = <<>>
    /\ subscription_rows = <<>>
    /\ tables = EmptyDataset
    /\ views = {}
    /\ published = [prev |-> NoTable, new |-> NoTable]
    /\ bq_client = None
    /\ api_pc = "starting"
    /\ response = NoResponse
    /\ raised = NoException
    /\ snapshots = <<>>
    /\ report = NoReport
    /\ validate = NotValidated
    /\ calls = NoCalls
    /\ seed = NotSeeded

NextTests == setUpClass \/ RunTests

SpecTests == InitTests /\ [][NextTests]_vars

\* The cross-validation script over a snapshot file
InitValidate ==
    /\ config \in [sub_snapshots : ValidateFiles, current_run : {CurrentRun}]
    /\ stripe = StripeData
    /\ etl_pc = "idle"
    /\ SUB_SNAPSHOTS = <<>>
    /\ VALID_CUSTOMER_IDS = {}
    /\ invoice_rows = <<>>
    /\ subscription_rows = <<>>
    /\ tables = EmptyDataset
    /\ views = {}
    /\ published = [prev |-> NoTable, new |-> NoTable]
    /\ bq_client = None
    /\ api_pc = "starting"
    /\ response = NoResponse
    /\ raised = NoException
    /\ snapshots = <<>>
    /\ report = NoReport
    /\ validate = NotValidated
    /\ calls = NoCalls
    /\ seed = NotSeeded

NextValidate ==
    \/ load_latest_snapshots
    \/ \E retrieval \in Retrievals : CheckRow(retrieval)
    \/ main_return

SpecValidate == InitValidate /\ [][NextValidate]_vars

\* The worker threads of the read API after startup_event, which has left a
\* client behind or, its construction having failed, none
InitClients ==
    /\ \E file \in PipeFiles : Loaded(file)
    /\ bq_client \in {None, "client"}
    /\ api_pc = "serving"
    /\ calls = [NoCalls EXCEPT
                  !.constructed = IF bq_client = None THEN {} ELSE {bq_client}]

NextClients ==
    \E t \in Threads :
       \/ get_bq_client_call(t)
       \/ get_bq_client_test(t)
       \/ \E ok \in BOOLEAN : get_bq_client_construct(t, ok)
       \/ get_bq_client_return(t)

SpecClients == InitClients /\ [][NextClients]_vars

\* the catalog of the billing system before a run: for each tier no product, a
\* product without an active price, or a product with one
StartCatalog(state) ==
    LET present == {j \in DOMAIN TIERS : state[j] # "none"}
        order == Ascending(present)
    IN [n \in DOMAIN order |->
          [tier |-> TIERS[order[n]].key,
           active_price |-> IF state[order[n]] = "priced" THEN order[n]
                            ELSE NoPrice]]

StartCatalogs ==
    {StartCatalog(state) :
       state \in {st \in [DOMAIN TIERS -> {"none", "product", "priced"}] :
                    \A j \in 3..Len(TIERS) : st[j] = st[3]}}

\* seed_prices.py run against a billing system
InitSeed ==
    /\ config \in [sub_snapshots : {<<>>}, current_run : {CurrentRun}]
    /\ stripe = StripeData
    /\ etl_pc = "idle"
    /\ SUB_SNAPSHOTS = <<>>
    /\ VALID_CUSTOMER_IDS = {}
    /\ invoice_rows = <<>>
    /\ subscription_rows = <<>>
    /\ tables = EmptyDataset
    /\ views = {}
    /\ published = [prev |-> NoTable, new |-> NoTable]
    /\ bq_client = None
    /\ api_pc = "starting"
    /\ response = NoResponse
    /\ raised = NoException
    /\ snapshots = <<>>
    /\ report = NoReport
    /\ validate = NotValidated
    /\ calls = NoCalls
    /\ \E products \in StartCatalogs :
          seed = [NotSeeded EXCEPT !.products = products]

NextSeed ==
    \/ seed_prices_run
    \/ \E outcome \in TierOutcomes :
          \E found \in DOMAIN seed.products \cup {NoProduct} :
             seed_tier(outcome, found)
    \/ \E ok \in BOOLEAN : seed_save(ok)

SpecSeed == InitSeed /\ [][NextSeed]_vars


----------------------------------------------------------------------------
(* Claims about the derived views, under SpecStore *)

\* C1: for every month of the loaded snapshot rows, mrr_monthly has exactly one
\* row, whose mrr_amount is the sum of the month's mrr_cents / 100 (so the sum
\* itself, in hundredths), paying_customers the number of distinct customers
\* with mrr_cents > 0, total_customers the number of distinct customers and
\* active_subscriptions the number of distinct subscriptions of the month
C1_MrrMonthlyRows ==
    LET file == SUB_SNAPSHOTS
        of(m) == {i \in DOMAIN file : file[i].month = m}
        RECURSIVE Total(_)
        Total(I) == IF I = {} THEN 0
                    ELSE LET i == CHOOSE x \in I : TRUE
                         IN file[i].mrr_cents + Total(I \ {i})
        M == ViewRows("mrr_monthly", tables)
    IN "mrr_monthly" \in views =>
       \A m \in {file[i].month : i \in DOMAIN file} :
          /\ Cardinality({r \in M : r.month = m}) = 1
          /\ \A r \in M : r.month = m =>
                /\ r.mrr_amount = Total(of(m))
                /\ r.paying_customers =
                      Cardinality({c \in {file[i].customer_id : i \in of(m)} :
                          \E i \in of(m) : /\ file[i].customer_id = c
                                           /\ file[i].mrr_cents > 0})
                /\ r.total_customers =
                      Cardinality({file[i].customer_id : i \in of(m)})
                /\ r.active_subscriptions =
                      Cardinality({file[i].subscription_id : i \in of(m)})

\* a month with three rows of two customers, one paying on two subscriptions'
\* worth of rows and one free
C1_Witness ==
    /\ "mrr_monthly" \in views
    /\ Len(SUB_SNAPSHOTS) = 3
    /\ \E r \in ViewRows("mrr_monthly", tables) :
          /\ r.total_customers = 2
          /\ r.paying_customers = 1
          /\ r.active_subscriptions = 3
          /\ r.mrr_amount = 1000

\* C2: the rows GetMrrMonthly serves carry past_due_customers, the number of
\* distinct customers whose row is past_due, and at_risk_mrr, the summed
\* mrr_cents of the past_due rows / 100, computed from the loaded rows
C2_PastDueServed ==
    LET file == SUB_SNAPSHOTS
        due(m) == {i \in DOMAIN file :
                     file[i].month = m /\ file[i].status = "past_due"}
        RECURSIVE Total(_)
        Total(I) == IF I = {} THEN 0
                    ELSE LET i == CHOOSE x \in I : TRUE
                         IN file[i].mrr_cents + Total(I \ {i})
    IN (etl_pc = "done" /\ response.endpoint = "/api/mrr") =>
       /\ response.status_code = 200
       /\ \A m \in {file[i].month : i \in DOMAIN file} :
             \E k \in DOMAIN response.body.data :
                /\ response.body.data[k].month = m
                /\ response.body.data[k].past_due_customers =
                      Cardinality({file[i].customer_id : i \in due(m)})
                /\ response.body.data[k].at_risk_mrr = Total(due(m))

\* C3: for every month arppu is mrr_amount / paying_customers to the nearest
\* hundredth when paying_customers > 0 and exactly 0 when it is 0, and
\* GetArppuMonthly answers with these rows, also when a month's rows all have
\* mrr_cents = 0
C3_Arppu ==
    LET M == ViewRows("mrr_monthly", tables)
        Nearest(a, h, p) ==
            (IF a * p >= h THEN a * p - h ELSE h - a * p) * 2 <= p
        Right(row) ==
            \E r \in M :
               /\ r.month = row.month
               /\ IF r.paying_customers > 0
                  THEN Nearest(row.arppu, r.mrr_amount, r.paying_customers)
                  ELSE row.arppu = 0
    IN "arppu_monthly" \in views =>
       /\ \A row \in ViewRows("arppu_monthly", tables) : Right(row)
       /\ {row.month : row \in ViewRows("arppu_monthly", tables)} =
             {r.month : r \in M}
       /\ response.endpoint = "/api/arpu" =>
             /\ response.status_code = 200
             /\ Len(response.body.data) = Cardinality(M)
             /\ \A k \in DOMAIN response.body.data :
                   Right(response.body.data[k])

\* GetArppuMonthly has answered over a month without a paying customer and a
\* month with one
C3_Witness ==
    /\ response.endpoint = "/api/arpu"
    /\ response.status_code = 200
    /\ Len(response.body.data) = 2
    /\ response.body.data[1].arppu = 0
    /\ response.body.data[2].arppu = 1500
    /\ \A i \in DOMAIN SUB_SNAPSHOTS :
          SUB_SNAPSHOTS[i].month = 1 => SUB_SNAPSHOTS[i].mrr_cents = 0


\* C4: GetChurnMonthly returns one row per month, ascending, where
\* prev_customers is the total_customers of the row before it and churn_rate is
\* (prev_customers - total_customers) / prev_customers * 100 to the nearest
\* hundredth; in the first row prev_customers is null and churn_rate is 0
C4_ChurnServed ==
    LET M == ViewRows("mrr_monthly", tables)
        data == response.body.data
        Nearest(a, h, p) ==
            (IF a * p >= h THEN a * p - h ELSE h - a * p) * 2 <= p
    IN (etl_pc = "done" /\ response.endpoint = "/api/churn") =>
       /\ response.status_code = 200
       /\ Len(data) = Cardinality(M)
       /\ \A k \in DOMAIN data :
             /\ \E r \in M : /\ r.month = data[k].month
                             /\ r.total_customers = data[k].total_customers
             /\ IF k = 1
                THEN data[k].prev_customers = NULL /\ data[k].churn_rate = 0
                ELSE /\ data[k - 1].month < data[k].month
                     /\ data[k].prev_customers = data[k - 1].total_customers
                     /\ data[k].prev_customers > 0 =>
                           Nearest(data[k].churn_rate,
                                   10000 * (data[k].prev_customers
                                            - data[k].total_customers),
                                   data[k].prev_customers)

----------------------------------------------------------------------------
(* Claims about a store of whole cohorts, under SpecCohorts *)

\* C5: with three consecutive months of 100, 80 and 100 customers, the churn
\* rate served for the second month is 25.0 and for the third -25.0
C5_ChurnExample ==
    LET file == SUB_SNAPSHOTS
        total(m) ==
            Cardinality({file[i].customer_id :
                            i \in {j \in DOMAIN file : file[j].month = m}})
    IN (/\ total(1) = 100 /\ total(2) = 80 /\ total(3) = 100
        /\ response.endpoint = "/api/churn") =>
       /\ response.status_code = 200
       /\ Len(response.body.data) = 3
       /\ response.body.data[2].churn_rate = 2500
       /\ response.body.data[3].churn_rate = -2500

----------------------------------------------------------------------------
(* Claims about the API's error handling, under SpecFaults *)

DataPaths == {Routes[k].path : k \in DOMAIN Routes}

\* C6: when the round trip of the health check fails, whatever the text of the
\* error, the response has status 503 and the body is exactly
\* {status: "degraded", bigquery: "unavailable"}, no field of which is the
\* text of the error
C6_HealthDegraded ==
    (response.endpoint = "/api/health" /\ raised # NoException) =>
       /\ response.status_code = 503
       /\ response.body = [status |-> "degraded", bigquery |-> "unavailable"]
       /\ \A k \in DOMAIN response.body :
             response.body[k] # raised.text /\ response.body[k] \notin ErrorTexts

\* the health check has failed on an error whose text holds a path
C6_Witness ==
    /\ response.endpoint = "/api/health"
    /\ raised.text = "credential path /secret/key.json"
    /\ response.status_code = 503

\* C7: every failure inside query_bq reaches the caller as an HTTPException with
\* a fixed detail: 504 "Query timed out" for a TimeoutError, 500 "BigQuery query
\* failed" for any other exception; the detail is never the text of the error,
\* and a request that saw no exception is answered 200
C7_QueryBqErrors ==
    response.endpoint \in DataPaths =>
       IF raised = NoException THEN response.status_code = 200
       ELSE /\ IF raised.type = "TimeoutError"
               THEN /\ response.status_code = 504
                    /\ response.body = [detail |-> "Query timed out"]
               ELSE /\ response.status_code = 500
                    /\ response.body = [detail |-> "BigQuery query failed"]
            /\ response.body.detail # raised.text

\* a data route has timed out with a text that holds a path
C7_Witness ==
    /\ response.endpoint = "/api/arpu"
    /\ raised = [type |-> "TimeoutError",
                 text |-> "credential path /secret/key.json"]
    /\ response.status_code = 504


----------------------------------------------------------------------------
(* Claims about loads and concurrent reads, under Spec *)

\* the table a load job of rows leaves
LoadedFrom(rows) == [exists |-> TRUE, rows |-> SeqToBag(rows)]

\* C8 as stated: after every load_to_bigquery(rows, table) the table holds
\* exactly the rows of the batch, an empty batch included, and loading the
\* batch again changes nothing
C8_EveryLoadReplaces ==
    /\ etl_pc = "load_subscriptions" =>
          tables["raw_invoices"] = LoadedFrom(invoice_rows)
    /\ etl_pc = "load_snapshots" =>
          tables["raw_subscriptions"] = LoadedFrom(subscription_rows)
    /\ etl_pc = ViewOrder[1] =>
          tables["sub_snapshots"] = LoadedFrom(SUB_SNAPSHOTS)
    /\ \A t \in TableNames :
          load_to_bigquery(load_to_bigquery(tables, SUB_SNAPSHOTS, t),
                           SUB_SNAPSHOTS, t)
          = load_to_bigquery(tables, SUB_SNAPSHOTS, t)

\* C8 amended: after load_to_bigquery(rows, table) with a batch that is not
\* empty the table holds exactly the rows of the batch and nothing of an
\* earlier load; with an empty batch the load is skipped and the table is left
\* as it was; loading the same batch twice leaves what loading it once leaves
C8_NonEmptyLoadReplaces ==
    /\ (etl_pc = "load_subscriptions" /\ invoice_rows # <<>>) =>
          tables["raw_invoices"] = LoadedFrom(invoice_rows)
    /\ (etl_pc = "load_snapshots" /\ subscription_rows # <<>>) =>
          tables["raw_subscriptions"] = LoadedFrom(subscription_rows)
    /\ etl_pc = ViewOrder[1] =>
          IF SUB_SNAPSHOTS # <<>>
          THEN tables["sub_snapshots"] = LoadedFrom(SUB_SNAPSHOTS)
          ELSE tables["sub_snapshots"] = published.new
    /\ \A t \in TableNames :
          load_to_bigquery(load_to_bigquery(tables, SUB_SNAPSHOTS, t),
                           SUB_SNAPSHOTS, t)
          = load_to_bigquery(tables, SUB_SNAPSHOTS, t)

\* a batch has just been loaded over the different rows of an earlier load
C8_Witness ==
    /\ etl_pc = ViewOrder[1]
    /\ SUB_SNAPSHOTS # <<>>
    /\ published.prev.exists
    /\ published.prev # published.new
    /\ tables["sub_snapshots"] = published.new

\* C9: a request answered while an ETL run is under way carries the rows of its
\* view over either the previous complete fact set or the new complete one,
\* never over a mix of the two
C9_NoTornRead ==
    [][\A k \in DOMAIN Routes :
          (Get(Routes[k], NoFault) /\ response'.status_code = 200) =>
             \E F \in {published.prev, published.new} :
                /\ F.exists
                /\ response'.body.data =
                      QueryRows(Routes[k],
                                [tables EXCEPT !["sub_snapshots"] = F])]_vars

\* a request has been answered over the new fact set between the load and the
\* end of a run that replaced a different fact set
C9_Witness ==
    /\ etl_pc \in {ViewOrder[i] : i \in 2..Len(ViewOrder)}
    /\ published.prev.exists
    /\ published.prev # published.new
    /\ response.endpoint = "/api/arpu"
    /\ response.status_code = 200
    /\ response.body.data =
          QueryRows(Routes.arpu,
                    [tables EXCEPT !["sub_snapshots"] = published.new])
    /\ response.body.data #
          QueryRows(Routes.arpu,
                    [tables EXCEPT !["sub_snapshots"] = published.prev])


----------------------------------------------------------------------------
(* Claims about the integrity tests, under SpecTests *)

\* what C10 asks of a row
RowIsSound(row) ==
    /\ row.mrr_cents = row.price_amount * row.screens
    /\ row.screens >= 1
    /\ \/ row.plan = "free" /\ row.price_amount = 0
       \/ row.plan = "standard" /\ row.price_amount = 1000
       \/ row.plan = "pro_plus" /\ row.price_amount = 1500
       \/ row.plan = "engage" /\ row.price_amount = 3000
       \/ row.plan = "enterprise" /\ row.price_amount = 4500
    /\ row.status \in {"active", "past_due"}

\* C10 as stated: validation of a batch passes if and only if every row has
\* mrr_cents = price_amount * screens, screens >= 1, a canonical plan at its
\* canonical price and a status of active or past_due; the rows are not
\* modified
C10_PassesIffRowsSound ==
    report.phase = "ran" =>
       /\ (\A t \in Tests : report.outcome[t].passed)
             <=> (\A i \in DOMAIN snapshots : RowIsSound(snapshots[i]))
       /\ snapshots = config.sub_snapshots

RowTests == {"test_mrr_cents_equals_price_times_screens",
             "test_price_amount_matches_plan", "test_screens_positive",
             "test_status_field_valid"}

\* C10 amended: the four per-row checks of validation (MRR arithmetic, price of
\* the plan, screens, status) all pass if and only if every row has mrr_cents =
\* price_amount * screens, screens >= 1, a canonical plan at its canonical
\* price and a status of active or past_due; the rows are not modified
C10_RowTestsPassIffRowsSound ==
    report.phase = "ran" =>
       /\ (\A t \in RowTests : report.outcome[t].passed)
             <=> (\A i \in DOMAIN snapshots : RowIsSound(snapshots[i]))
       /\ snapshots = config.sub_snapshots

\* the tests have run over two sound rows, one of them on the free plan, and
\* the per-row checks have passed
C10_Witness ==
    /\ report.phase = "ran"
    /\ Len(snapshots) = 2
    /\ snapshots[1].plan = "free"
    /\ snapshots[2].status = "past_due"
    /\ \A t \in RowTests : report.outcome[t].passed

\* C11: the duplicate check reports nothing exactly when every
\* (month, customer_id) pair is in at most one row, and for a pair that two
\* rows of the batch share it reports exactly one violation, which names the
\* pair of both rows
C11_DuplicateDetection ==
    LET dups == report.outcome["test_no_duplicate_customers_per_month"]
        Key(i) == <<snapshots[i].month, snapshots[i].customer_id>>
        RowsOf(k) == {i \in DOMAIN snapshots : Key(i) = k}
        Keys == {Key(i) : i \in DOMAIN snapshots}
    IN report.phase = "ran" =>
       /\ dups.passed <=> \A k \in Keys : Cardinality(RowsOf(k)) <= 1
       /\ dups.passed <=> dups.errors = <<>>
       /\ \A k \in Keys :
             Cardinality(RowsOf(k)) = 2 =>
                /\ Cardinality({n \in DOMAIN dups.errors :
                       <<dups.errors[n].month, dups.errors[n].customer_id>>
                       = k}) = 1
                /\ \A i \in RowsOf(k) :
                      \E n \in DOMAIN dups.errors :
                         /\ dups.errors[n].month = snapshots[i].month
                         /\ dups.errors[n].customer_id = snapshots[i].customer_id

\* the tests have run over two different rows of one customer in one month, and
\* one duplicate has been reported
C11_Witness ==
    /\ report.phase = "ran"
    /\ Len(snapshots) = 2
    /\ snapshots[1] # snapshots[2]
    /\ snapshots[1].month = snapshots[2].month
    /\ snapshots[1].customer_id = snapshots[2].customer_id
    /\ Len(report.outcome["test_no_duplicate_customers_per_month"].errors) = 1

\* what each per-row check looks for in a row
Violates(t, row) ==
    CASE t = "test_mrr_cents_equals_price_times_screens" ->
            row.mrr_cents # row.price_amount * row.screens
      [] t = "test_price_amount_matches_plan" ->
            \/ row.plan \notin DOMAIN EXPECTED_PRICES
            \/ row.price_amount # EXPECTED_PRICES[row.plan]
      [] t = "test_screens_positive" -> row.screens < 1
      [] t = "test_status_field_valid" ->
            row.status \notin {"active", "past_due"}

\* C12: the report of each per-row check has one entry for every row that
\* violates the check, in the order of the rows, and each entry carries the
\* month and the customer_id of its row
C12_EveryViolationTagged ==
    report.phase = "ran" =>
       \A t \in RowTests :
          LET errs == report.outcome[t].errors
              bad == Ascending({i \in DOMAIN snapshots :
                                  Violates(t, snapshots[i])})
          IN /\ Len(errs) = Len(bad)
             /\ \A n \in DOMAIN errs :
                   /\ "month" \in DOMAIN errs[n]
                   /\ "customer_id" \in DOMAIN errs[n]
                   /\ errs[n].month = snapshots[bad[n]].month
                   /\ errs[n].customer_id = snapshots[bad[n]].customer_id

----------------------------------------------------------------------------
(* Claims about the by-plan views, ordering and rounding, under SpecStore *)

\* the display name the plan key of a row is filed under
DisplayName(plan) ==
    IF plan = "free" THEN "Free"
    ELSE IF plan = "standard" THEN "Standard"
    ELSE IF plan = "pro_plus" THEN "Pro Plus"
    ELSE IF plan = "engage" THEN "Engage"
    ELSE IF plan = "enterprise" THEN "Enterprise"
    ELSE "Unknown"

\* C13: mrr_by_plan and customers_by_plan have exactly one row for every
\* (month, display name) of the loaded rows, an unmapped plan key being filed
\* under "Unknown"; the row's mrr_amount is the summed mrr_cents of the group
\* (in hundredths) and its customer_count the number of distinct customers of
\* the group; the per-plan mrr_amounts of a month add up to the month's
\* mrr_amount in mrr_monthly
C13_ByPlanGroups ==
    LET file == SUB_SNAPSHOTS
        of(m, name) == {i \in DOMAIN file : /\ file[i].month = m
                                            /\ DisplayName(file[i].plan) = name}
        keys == {<<file[i].month, DisplayName(file[i].plan)>> : i \in DOMAIN file}
        RECURSIVE Total(_)
        Total(I) == IF I = {} THEN 0
                    ELSE LET i == CHOOSE x \in I : TRUE
                         IN file[i].mrr_cents + Total(I \ {i})
        P == ViewRows("mrr_by_plan", tables)
        C == ViewRows("customers_by_plan", tables)
        RECURSIVE Amounts(_)
        Amounts(R) == IF R = {} THEN 0
                      ELSE LET r == CHOOSE x \in R : TRUE
                           IN r.mrr_amount + Amounts(R \ {r})
    IN {"mrr_monthly", "mrr_by_plan", "customers_by_plan"} \subseteq views =>
       /\ {<<r.month, r.plan_name>> : r \in P} = keys
       /\ {<<r.month, r.plan_name>> : r \in C} = keys
       /\ Cardinality(P) = Cardinality(keys)
       /\ Cardinality(C) = Cardinality(keys)
       /\ \A r \in P : r.mrr_amount = Total(of(r.month, r.plan_name))
       /\ \A r \in C :
             r.customer_count =
                Cardinality({file[i].customer_id : i \in of(r.month, r.plan_name)})
       /\ \A r \in ViewRows("mrr_monthly", tables) :
             Amounts({q \in P : q.month = r.month}) = r.mrr_amount

\* a month whose rows are two of an unmapped plan key, of two customers, and
\* one of the standard plan
C13_Witness ==
    /\ {"mrr_monthly", "mrr_by_plan", "customers_by_plan"} \subseteq views
    /\ Len(SUB_SNAPSHOTS) = 3
    /\ [month |-> 1, plan_name |-> "Unknown", mrr_amount |-> 4000]
          \in ViewRows("mrr_by_plan", tables)
    /\ [month |-> 1, plan_name |-> "Standard", mrr_amount |-> 1000]
          \in ViewRows("mrr_by_plan", tables)
    /\ [month |-> 1, plan_name |-> "Unknown", customer_count |-> 2]
          \in ViewRows("customers_by_plan", tables)
    /\ \E r \in ViewRows("mrr_monthly", tables) :
          r.month = 1 /\ r.mrr_amount = 5000

\* the plan display names in lexicographic order
NameOrder ==
    <<"Engage", "Enterprise", "Free", "Pro Plus", "Standard", "Unknown">>

NameBefore(a, b) ==
    \E i, j \in DOMAIN NameOrder :
       NameOrder[i] = a /\ NameOrder[j] = b /\ i < j

\* C14: the rows of every series the read API returns are in ascending order
\* of month, one row per month, and in the by-plan series the rows of one
\* month are in ascending order of plan display name, whatever the order of
\* the rows in the snapshot file that was loaded
C14_SeriesOrdered ==
    (response.endpoint \in DataPaths /\ response.status_code = 200) =>
       LET data == response.body.data
       IN \A k \in 1..(Len(data) - 1) :
             \/ data[k].month < data[k + 1].month
             \/ /\ data[k].month = data[k + 1].month
                /\ response.endpoint \in {"/api/mrr-by-plan",
                                          "/api/customers-by-plan"}
                /\ NameBefore(data[k].plan_name, data[k + 1].plan_name)

\* the by-plan series has been returned with Free before Standard in month 1
\* and month 2 after them, from a file that lists the standard row first
C14_Witness ==
    /\ response.endpoint = "/api/mrr-by-plan"
    /\ response.status_code = 200
    /\ Len(response.body.data) = 3
    /\ response.body.data[1] =
          [month |-> 1, plan_name |-> "Free", mrr_amount |-> 0]
    /\ response.body.data[2] =
          [month |-> 1, plan_name |-> "Standard", mrr_amount |-> 1000]
    /\ response.body.data[3].month = 2
    /\ SUB_SNAPSHOTS[1].plan = "standard"
    /\ SUB_SNAPSHOTS[2].plan = "free"

\* C15: every published money value is one rounding away from the exact
\* integer sum of mrr_cents: mrr_amount and the per-plan mrr_amount are the
\* sum of their group (in hundredths, exactly), and arppu is the sum of the
\* month's mrr_cents over 100 * paying_customers rounded to the nearest
\* hundredth, halves away from zero, in the view and in the series the API
\* returns
C15_RoundedOnce ==
    LET file == SUB_SNAPSHOTS
        RECURSIVE Total(_)
        Total(I) == IF I = {} THEN 0
                    ELSE LET i == CHOOSE x \in I : TRUE
                         IN file[i].mrr_cents + Total(I \ {i})
        Sum(m) == Total({i \in DOMAIN file : file[i].month = m})
        Paying(m) == Cardinality({file[i].customer_id :
                        i \in {j \in DOMAIN file : /\ file[j].month = m
                                                    /\ file[j].mrr_cents > 0}})
        Rounded(a, m) ==
            IF Paying(m) = 0 THEN a = 0
            ELSE /\ 2 * (a * Paying(m) - Sum(m)) <= Paying(m)
                 /\ 2 * (Sum(m) - a * Paying(m)) < Paying(m)
    IN {"mrr_monthly", "mrr_by_plan", "arppu_monthly"} \subseteq views =>
       /\ \A r \in ViewRows("mrr_monthly", tables) : r.mrr_amount = Sum(r.month)
       /\ \A r \in ViewRows("mrr_by_plan", tables) :
             r.mrr_amount =
                Total({i \in DOMAIN file :
                         /\ file[i].month = r.month
                         /\ DisplayName(file[i].plan) = r.plan_name})
       /\ \A r \in ViewRows("arppu_monthly", tables) : Rounded(r.arppu, r.month)
       /\ (response.endpoint = "/api/arpu" /\ response.status_code = 200) =>
             \A k \in DOMAIN response.body.data :
                Rounded(response.body.data[k].arppu, response.body.data[k].month)

\* the API has returned the arppu of a month of three paying customers whose
\* 35.00 do not divide evenly: 11.67
C15_Witness ==
    /\ response.endpoint = "/api/arpu"
    /\ response.status_code = 200
    /\ response.body.data = <<[month |-> 1, arppu |-> 1167]>>
    /\ [month |-> 1, mrr_amount |-> 3500, paying_customers |-> 3,
        arppu |-> 1167] \in ViewRows("arppu_monthly", tables)

\* C16: in every row of mrr_monthly paying_customers <= total_customers
C16_PayingAtMostTotal ==
    "mrr_monthly" \in views =>
       \A r \in ViewRows("mrr_monthly", tables) :
          r.paying_customers <= r.total_customers

\* a month of one customer with two paying rows and one free customer
C16_Witness ==
    /\ "mrr_monthly" \in views
    /\ Len(SUB_SNAPSHOTS) = 3
    /\ \E i, j \in DOMAIN SUB_SNAPSHOTS :
          /\ i # j
          /\ SUB_SNAPSHOTS[i].customer_id = SUB_SNAPSHOTS[j].customer_id
          /\ SUB_SNAPSHOTS[i].month = SUB_SNAPSHOTS[j].month
          /\ SUB_SNAPSHOTS[i].mrr_cents > 0
          /\ SUB_SNAPSHOTS[j].mrr_cents > 0
    /\ \E r \in ViewRows("mrr_monthly", tables) :
          r.paying_customers = 1 /\ r.total_customers = 2

----------------------------------------------------------------------------
(* Claims about the order of view creation, under Spec *)

\* C18: views are created in dependency order -- a view exists only once the
\* sub_snapshots table exists, arppu_monthly only once mrr_monthly does -- so
\* that when an ETL run has completed every view a route of the read API
\* selects from exists and resolves
C18_ViewsResolveWhenDone ==
    /\ views # {} => tables["sub_snapshots"].exists
    /\ "arppu_monthly" \in views => "mrr_monthly" \in views
    /\ etl_pc = "done" =>
          \A k \in DOMAIN Routes : Resolves(Routes[k].view, tables, views)

----------------------------------------------------------------------------
(* Claims about the cross-validation, under SpecValidate *)

\* C17: a lookup that finds no subscription, or fails with any exception, is
\* recorded as one entry of stripe_errors for the row's customer and is not
\* raised: fetch_stripe_subscription returns None or an {error} value, the
\* loop goes on with the next row, and the run ends only when every row of the
\* latest month has been checked
C17_LookupFailuresRecorded ==
    [][/\ \A retrieval \in Retrievals :
             (CheckRow(retrieval) /\ retrieval.raises # "none") =>
                LET snap == validate.snapshots[validate.i + 1]
                    data == validate'.stripe_data
                    errs == validate'.stripe_errors
                IN /\ validate'.pc = "checking"
                   /\ validate'.i = validate.i + 1
                   /\ data = NoneData \/ DOMAIN data = {"error"}
                   /\ retrieval.raises = "InvalidRequestError" => data = NoneData
                   /\ Len(errs) = Len(validate.stripe_errors) + 1
                   /\ errs[Len(errs)].customer_id = snap.customer_id
                   /\ validate'.mismatches = validate.mismatches
                   /\ validate'.match_count = validate.match_count
       /\ (validate.pc = "checking" /\ validate'.pc = "exited") =>
             validate.i = Len(validate.snapshots)]_vars

\* the lookup of the first of two rows raised an exception that is no stripe
\* error, the second row was then checked and matched, and the run has ended
C17_Witness ==
    /\ validate.pc = "exited"
    /\ Len(validate.snapshots) = 2
    /\ validate.i = 2
    /\ Len(validate.stripe_errors) = 1
    /\ validate.stripe_errors[1].customer_id = validate.snapshots[1].customer_id
    /\ validate.stripe_errors[1].error[1] = "Unexpected error"
    /\ validate.match_count = 1

\* a snapshot row and a live subscription agree
Agrees(snap, sub) ==
    /\ sub.status \notin {"canceled", "incomplete_expired"}
    /\ price_id_to_plan(sub.price_id) = snap.plan
    /\ sub.quantity = snap.screens
    /\ sub.unit_amount = snap.price_amount
    /\ sub.unit_amount * sub.quantity = snap.mrr_cents
    /\ (IF sub.status = "past_due" THEN "past_due" ELSE "active")
          = (IF snap.status = None THEN "active" ELSE snap.status)

\* C19: a checked row is counted as matched if and only if its subscription
\* was retrieved, is neither canceled nor incomplete_expired, and plan (via
\* the price id), screens, price_amount, mrr_cents and status agree, the live
\* status standing for past_due when it is past_due and for active otherwise
\* and a row without a status standing for active; the rows checked are the
\* rows of the greatest month of the file, all of them
C19_MatchedIffAgrees ==
    [][/\ \A retrieval \in Retrievals :
             CheckRow(retrieval) =>
                LET snap == validate.snapshots[validate.i + 1]
                    agrees == /\ retrieval.raises = "none"
                              /\ Agrees(snap, retrieval.sub)
                IN validate'.match_count =
                      validate.match_count + (IF agrees THEN 1 ELSE 0)
       /\ validate'.pc = "checking" =>
             LET file == config.sub_snapshots
                 latest == {k \in DOMAIN file :
                              \A n \in DOMAIN file : file[n].month <= file[k].month}
             IN /\ Len(validate'.snapshots) = Cardinality(latest)
                /\ \A k \in DOMAIN validate'.snapshots :
                      \E n \in latest : validate'.snapshots[k] = file[n]]_vars

\* of a file with a row of an earlier month and a row of the latest month that
\* has no status, the latter alone was checked, against a subscription that is
\* active, and it matched
C19_Witness ==
    /\ validate.pc = "exited"
    /\ Len(config.sub_snapshots) = 2
    /\ config.sub_snapshots[1].month < config.sub_snapshots[2].month
    /\ validate.snapshots = <<config.sub_snapshots[2]>>
    /\ validate.snapshots[1].status = None
    /\ validate.stripe_data.status = "active"
    /\ validate.match_count = 1

\* C20 as stated: when the run has ended, match_count + mismatches + API
\* errors is the number of rows checked, and the exit status is 0 exactly when
\* every row is matched, 1 otherwise
C20_ExitZeroIffAllMatched ==
    validate.pc = "exited" =>
       /\ validate.match_count + Len(validate.mismatches)
             + Len(validate.stripe_errors) = Len(validate.snapshots)
       /\ validate.exit_status \in {0, 1}
       /\ validate.exit_status = 0
             <=> validate.match_count = Len(validate.snapshots)

\* C20 amended: every row checked so far has ended in exactly one of matched,
\* mismatch and API error; a run over a snapshot file that is not empty exits
\* with status 0 exactly when every row of the latest month is matched and
\* with status 1 otherwise; a run over an empty file exits with status 1
\* before any row is checked
C20_ExitZeroIffRowsAllMatched ==
    /\ validate.match_count + Len(validate.mismatches)
          + Len(validate.stripe_errors) = validate.i
    /\ validate.pc = "exited" =>
          /\ validate.i = Len(validate.snapshots)
          /\ validate.exit_status \in {0, 1}
          /\ validate.exit_status = 0
                <=> /\ config.sub_snapshots # <<>>
                    /\ validate.match_count = Len(validate.snapshots)

\* a run over two rows has ended with one matched and one mismatch, status 1
C20_Witness ==
    /\ validate.pc = "exited"
    /\ Len(validate.snapshots) = 2
    /\ validate.match_count = 1
    /\ Len(validate.mismatches) = 1
    /\ validate.stripe_errors = <<>>
    /\ validate.exit_status = 1

----------------------------------------------------------------------------
(* Claims about the lazily initialised client, under SpecClients *)

\* C21: across the interleavings of the worker threads at most one client is
\* ever constructed and every call of get_bq_client that returns returns that
\* client; while every construction has failed the handle stays unset
C21_ClientSingleton ==
    /\ Cardinality(calls.constructed) <= 1
    /\ Cardinality(calls.returned) <= 1
    /\ calls.returned \subseteq calls.constructed
    /\ calls.constructed = {} <=> bq_client = None
    /\ \A t \in Threads :
          calls.result[t] \in calls.constructed \cup {None, "raised"}

----------------------------------------------------------------------------
(* Claims about the seeding of prices, under SpecSeed *)

\* C22: a run creates nothing for a tier that had a tagged product with an
\* active price when the run began, and only a price for a tier that had a
\* product without one; a run after a successful run creates nothing; the
\* config file is written only once all five tiers have been processed, and
\* then maps every tier key to the one active price of a product of that tier
C22_SeedIdempotent ==
    LET Has(products, key) == Tagged(products, key) # {}
        Priced(products, key) ==
            \E i \in Tagged(products, key) : products[i].active_price # NoPrice
        keys == {TIERS[j].key : j \in DOMAIN TIERS}
    IN /\ \A n \in DOMAIN seed.created :
             /\ ~Priced(seed.at_start, seed.created[n].tier)
             /\ Has(seed.at_start, seed.created[n].tier) =>
                   seed.created[n].what = "price"
       /\ seed.after_success => seed.created = <<>>
       /\ seed.file_written =>
             /\ seed.pc = "done"
             /\ DOMAIN seed.file = keys
             /\ \A k \in keys :
                   \E i \in Tagged(seed.products, k) :
                      seed.products[i].active_price = seed.file[k]
       /\ seed.pc = "exited" => ~seed.file_written


====
